---- MODULE Spec2Model ----
(* whatlang script detection (src/script.rs): detect_script as run by the   *)
(* rayon pipeline par_chars -> filter -> filter_map(find_any) -> try_fold   *)
(* -> try_reduce, followed by the final match on the reduced value.         *)
(* Characters are Unicode code points (integers); a count vector is a       *)
(* function from the 0-based slot index to a natural number.                *)
EXTENDS Integers, Sequences, FiniteSets, TLC

(***************************************************************************)
(* Bounds of the model.                                                    *)
(***************************************************************************)
\* longest text, in characters
MaxLen == 3

\* the code points texts are drawn from: 'a', Cyrillic ya, U+1D2B (accepted
\* by is_latin and is_cyrillic), Thai ko kai, '1' (a stop character) and
\* U+2014 (not a stop character, accepted by no predicate)
Alphabet == { \H61, \H44F, \H1D2B, \HE01, \H31, \H2014 }

RECURSIVE SeqsUpTo(_)
SeqsUpTo(n) ==
    IF n = 0 THEN { << >> }
    ELSE LET shorter == SeqsUpTo(n - 1)
         IN  shorter \cup { Append(s, c) : s \in { t \in shorter : Len(t) = n - 1 }, c \in Alphabet }

Texts == SeqsUpTo(MaxLen)

(***************************************************************************)
(* enum Script, in declaration order: `script as usize` is the 0-based     *)
(* position in this list.                                                  *)
(***************************************************************************)
Script ==
    << "Arabic", "Bengali", "Cyrillic", "Devanagari", "Ethiopic", "Georgian",
       "Greek", "Gujarati", "Gurmukhi", "Hangul", "Hebrew", "Hiragana",
       "Kannada", "Katakana", "Khmer", "Latin", "Malayalam", "Mandarin",
       "Myanmar", "Oriya", "Sinhala", "Tamil", "Telugu", "Thai" >>

Scripts == { Script[i] : i \in 1..Len(Script) }

\* discriminants numbered from 1, as a binding that reserves 0 would
AsUsizeFromOne(script) == CHOOSE i \in 1..Len(Script) : Script[i] = script

\* script as usize
AsUsize(script) == (CHOOSE i \in 1..Len(Script) : Script[i] = script) - 1

(***************************************************************************)
(* The membership predicates.                                              *)
(***************************************************************************)
is_cyrillic(ch) ==
    \/ ch \in \H0400..\H0484
    \/ ch \in \H0487..\H052F
    \/ ch \in \H2DE0..\H2DFF
    \/ ch \in \HA640..\HA69D
    \/ ch = \H1D2B
    \/ ch = \H1D78
    \/ ch = \HA69F

is_latin(ch) ==
    \/ ch \in \H61..\H7A
    \/ ch \in \H41..\H5A
    \/ ch \in \H0080..\H00FF
    \/ ch \in \H0100..\H017F
    \/ ch \in \H0180..\H024F
    \/ ch \in \H0250..\H02AF
    \/ ch \in \H1D00..\H1D7F
    \/ ch \in \H1D80..\H1DBF
    \/ ch \in \H1E00..\H1EFF
    \/ ch \in \H2100..\H214F
    \/ ch \in \H2C60..\H2C7F
    \/ ch \in \HA720..\HA7FF
    \/ ch \in \HAB30..\HAB6F

is_arabic(ch) ==
    \/ ch \in \H0600..\H06FF
    \/ ch \in \H0750..\H07FF
    \/ ch \in \H08A0..\H08FF
    \/ ch \in \HFB50..\HFDFF
    \/ ch \in \HFE70..\HFEFF
    \/ ch \in \H10E60..\H10E7F
    \/ ch \in \H1EE00..\H1EEFF

is_devanagari(ch) ==
    \/ ch \in \H0900..\H097F
    \/ ch \in \HA8E0..\HA8FF
    \/ ch \in \H1CD0..\H1CFF

is_ethiopic(ch) ==
    \/ ch \in \H1200..\H139F
    \/ ch \in \H2D80..\H2DDF
    \/ ch \in \HAB00..\HAB2F

is_hebrew(ch) == ch \in \H0590..\H05FF

is_georgian(ch) == ch \in \H10A0..\H10FF

is_mandarin(ch) ==
    \/ ch \in \H2E80..\H2E99
    \/ ch \in \H2E9B..\H2EF3
    \/ ch \in \H2F00..\H2FD5
    \/ ch = \H3005
    \/ ch = \H3007
    \/ ch \in \H3021..\H3029
    \/ ch \in \H3038..\H303B
    \/ ch \in \H3400..\H4DB5
    \/ ch \in \H4E00..\H9FCC
    \/ ch \in \HF900..\HFA6D
    \/ ch \in \HFA70..\HFAD9

is_bengali(ch) == ch \in \H0980..\H09FF

is_hiragana(ch) == ch \in \H3040..\H309F

is_katakana(ch) == ch \in \H30A0..\H30FF

is_hangul(ch) ==
    \/ ch \in \HAC00..\HD7AF
    \/ ch \in \H1100..\H11FF
    \/ ch \in \H3130..\H318F
    \/ ch \in \H3200..\H32FF
    \/ ch \in \HA960..\HA97F
    \/ ch \in \HD7B0..\HD7FF
    \/ ch \in \HFF00..\HFFEF

\* the Greek range with its upper end one code point too far
is_greek_to_0400(ch) == ch \in \H0370..\H0400

is_greek(ch) == ch \in \H0370..\H03FF

is_kannada(ch) == ch \in \H0C80..\H0CFF

is_tamil(ch) == ch \in \H0B80..\H0BFF

is_thai(ch) == ch \in \H0E00..\H0E7F

is_gujarati(ch) == ch \in \H0A80..\H0AFF

is_gurmukhi(ch) == ch \in \H0A00..\H0A7F

is_telugu(ch) == ch \in \H0C00..\H0C7F

is_malayalam(ch) == ch \in \H0D00..\H0D7F

is_oriya(ch) == ch \in \H0B00..\H0B7F

is_myanmar(ch) == ch \in \H1000..\H109F

is_sinhala(ch) == ch \in \H0D80..\H0DFF

is_khmer(ch) ==
    \/ ch \in \H1780..\H17FF
    \/ ch \in \H19E0..\H19FF

\* utils::is_stop_char: the ASCII controls, space, digits and punctuation
is_stop_char(ch) ==
    \/ ch \in \H0000..\H0040
    \/ ch \in \H005B..\H0060
    \/ ch \in \H007B..\H007E

(***************************************************************************)
(* const SCRIPT_COUNTERS: the scripts of the table, in table order; the    *)
(* function half of entry i is check_fn(SCRIPT_COUNTERS[i].0, ch).         *)
(***************************************************************************)
SCRIPT_COUNTERS ==
    << "Latin", "Cyrillic", "Arabic", "Mandarin", "Devanagari", "Hebrew",
       "Ethiopic", "Georgian", "Bengali", "Hangul", "Hiragana", "Katakana",
       "Greek", "Kannada", "Tamil", "Thai", "Gujarati", "Gurmukhi", "Telugu",
       "Malayalam", "Oriya", "Myanmar", "Sinhala", "Khmer" >>

check_fn(script, ch) ==
    CASE script = "Latin"      -> is_latin(ch)
      [] script = "Cyrillic"   -> is_cyrillic(ch)
      [] script = "Arabic"     -> is_arabic(ch)
      [] script = "Mandarin"   -> is_mandarin(ch)
      [] script = "Devanagari" -> is_devanagari(ch)
      [] script = "Hebrew"     -> is_hebrew(ch)
      [] script = "Ethiopic"   -> is_ethiopic(ch)
      [] script = "Georgian"   -> is_georgian(ch)
      [] script = "Bengali"    -> is_bengali(ch)
      [] script = "Hangul"     -> is_hangul(ch)
      [] script = "Hiragana"   -> is_hiragana(ch)
      [] script = "Katakana"   -> is_katakana(ch)
      [] script = "Greek"      -> is_greek(ch)
      [] script = "Kannada"    -> is_kannada(ch)
      [] script = "Tamil"      -> is_tamil(ch)
      [] script = "Thai"       -> is_thai(ch)
      [] script = "Gujarati"   -> is_gujarati(ch)
      [] script = "Gurmukhi"   -> is_gurmukhi(ch)
      [] script = "Telugu"     -> is_telugu(ch)
      [] script = "Malayalam"  -> is_malayalam(ch)
      [] script = "Oriya"      -> is_oriya(ch)
      [] script = "Myanmar"    -> is_myanmar(ch)
      [] script = "Sinhala"    -> is_sinhala(ch)
      [] script = "Khmer"      -> is_khmer(ch)

\* SCRIPT_COUNTERS.len(), the length of every count vector
NumSlots == Len(SCRIPT_COUNTERS)

Slots == 0..(NumSlots - 1)

\* SCRIPT_COUNTERS[i].0 for a 0-based index i; "panic" past the table's end
TableScript(i) ==
    IF i + 1 \in DOMAIN SCRIPT_COUNTERS THEN SCRIPT_COUNTERS[i + 1] ELSE "panic"

\* the table entries whose check_fn accepts ch: find_any returns any one
Matches(ch) == { SCRIPT_COUNTERS[i] : i \in { j \in 1..NumSlots : check_fn(SCRIPT_COUNTERS[j], ch) } }

\* the first table entry whose check_fn accepts ch, "none" when there is none
FirstMatch(ch) ==
    IF Matches(ch) = {} THEN "none"
    ELSE SCRIPT_COUNTERS[CHOOSE i \in 1..NumSlots :
            /\ check_fn(SCRIPT_COUNTERS[i], ch)
            /\ \A j \in 1..(i - 1) : ~check_fn(SCRIPT_COUNTERS[j], ch)]

(***************************************************************************)
(* Values of the pipeline: Result<Vec<usize>, Script>, and the outcome of  *)
(* an index past the end of a vector (a panic).                            *)
(***************************************************************************)
\* vec![0; SCRIPT_COUNTERS.len()]
Zero == [i \in Slots |-> 0]

Ok(counts) == [tag |-> "Ok", counts |-> counts, script |-> "none"]

Err(script) == [tag |-> "Err", counts |-> Zero, script |-> script]

Panic == [tag |-> "Panic", counts |-> Zero, script |-> "none"]

\* the closure of try_fold: tally the script in slot `script as usize`
fold_op(counts, script, h) ==
    LET i == AsUsize(script)
    IN  IF i \notin DOMAIN counts THEN Panic
        ELSE LET bumped == [counts EXCEPT ![i] = @ + 1]
             IN  IF bumped[i] > h THEN Err(script) ELSE Ok(bumped)

\* a merge that leaves the left vector as it is, the addition forgotten
reduce_op_no_add(counts1, counts2, h) ==
    LET over == { i \in DOMAIN counts1 : counts1[i] > h }
    IN  IF over = {} THEN Ok(counts1)
        ELSE Err(TableScript(CHOOSE i \in over : \A j \in over : i <= j))

\* the closure of try_reduce: add slot by slot, in slot order, and leave at
\* the first slot whose sum exceeds h with the table's script of that slot
reduce_op(counts1, counts2, h) ==
    LET zipped == DOMAIN counts1 \cap DOMAIN counts2
        over   == { i \in zipped : counts1[i] + counts2[i] > h }
        i0     == CHOOSE i \in over : \A j \in over : i <= j
    IN  IF over = {}
        THEN Ok([i \in DOMAIN counts1 |->
                    IF i \in zipped THEN counts1[i] + counts2[i] ELSE counts1[i]])
        ELSE IF TableScript(i0) = "panic" THEN Panic
        ELSE Err(TableScript(i0))

\* rayon's reducer for try_reduce: an Err of the left operand, else of the
\* right one, passes through; two Ok values go through reduce_op
Combine(left, right, h) ==
    IF left.tag = "Panic" \/ right.tag = "Panic" THEN Panic
    ELSE IF left.tag = "Err" THEN left
    ELSE IF right.tag = "Err" THEN right
    ELSE reduce_op(left.counts, right.counts, h)

\* enumerate().max_by_key(count): the index of the last maximal slot
MaxByKey(counts) ==
    CHOOSE i \in DOMAIN counts :
        /\ \A j \in DOMAIN counts : counts[j] <= counts[i]
        /\ \A j \in DOMAIN counts : j > i => counts[j] < counts[i]

\* the final match of detect_script on the reduced value
Outcome(res) ==
    IF res.tag = "Panic" THEN "panic"
    ELSE IF res.tag = "Err" THEN res.script
    ELSE IF DOMAIN res.counts = {} THEN "None"
    ELSE TableScript(MaxByKey(res.counts))

(***************************************************************************)
(* The split of the text into contiguous chunks.                           *)
(***************************************************************************)
SortedSeq(S) ==
    CHOOSE f \in [1..Cardinality(S) -> S] :
        \A i, j \in 1..Cardinality(S) : i < j => f[i] < f[j]

\* the chunks of a text of n characters cut after the positions in cuts
Split(n, cuts) ==
    LET ends == SortedSeq(cuts \cup {n})
    IN  [k \in 1..Len(ends) |->
            [lo    |-> IF k = 1 THEN 1 ELSE ends[k - 1] + 1,
             hi    |-> ends[k],
             next  |-> IF k = 1 THEN 1 ELSE ends[k - 1] + 1,
             res   |-> Ok(Zero),
             stage |-> "fold"]]

RemoveAt(s, i) == [k \in 1..(Len(s) - 1) |-> IF k < i THEN s[k] ELSE s[k + 1]]

VARIABLES
    text,    \* the argument of detect_script
    half,    \* text.chars().count() / 2
    chunks,  \* the pieces of the parallel iterator, left to right
    full,    \* the flag try_reduce shares among its folders
    cls,     \* per position, what filter and filter_map made of the character
    result,  \* the value detect_script returned
    first,   \* the value an earlier call on the same text returned
    pc

vars == << text, half, chunks, full, cls, result, first, pc >>

Init ==
    /\ text \in Texts
    /\ half = 0
    /\ chunks = << >>
    /\ full = FALSE
    /\ cls = [p \in 1..Len(text) |-> "unseen"]
    /\ result = "unset"
    /\ first = "unset"
    /\ pc = "call"

\* the characters that pass .filter(|&ch| !is_stop_char(ch))
NonStop(t) == SelectSeq(t, LAMBDA ch : ~is_stop_char(ch))

\* a count of the characters taken after the stop characters are filtered out
CharsCountNonStop(t) == Len(NonStop(t))

\* text.chars().count()
CharsCount(t) == Len(t)

\* a threshold recomputed from the length of chunk c
ThresholdOfChunk(c) == (chunks[c].hi - chunks[c].lo + 1) \div 2

\* the half the try_fold closure of chunk c compares against
Threshold(c) == half

\* let half = text.chars().count() / 2, and the split par_chars makes: any
\* cut of the text into contiguous non-empty chunks, down to one character
\* each (the number of chunks is the runtime's choice)
Start ==
    /\ pc = "call"
    /\ \E cuts \in SUBSET (1..(Len(text) - 1)) :
          /\ chunks' = Split(Len(text), cuts)
    /\ half' = CharsCount(text) \div 2
    /\ pc' = "run"
    /\ UNCHANGED << text, full, cls, result, first >>

\* one character of chunk c through filter, filter_map and the try_fold
\* closure; a chunk that has not yet seen the full flag keeps going
FoldStep(c) ==
    /\ pc = "run"
    /\ c <= Len(chunks)
    /\ chunks[c].stage = "fold"
    /\ chunks[c].res.tag = "Ok"
    /\ chunks[c].next <= chunks[c].hi
    /\ LET p  == chunks[c].next
           ch == text[p]
       IN  IF is_stop_char(ch)
           THEN /\ chunks' = [chunks EXCEPT ![c].next = p + 1]
                /\ cls' = [cls EXCEPT ![p] = "stop"]
                /\ pc' = pc
           ELSE IF Matches(ch) = {}
           THEN /\ chunks' = [chunks EXCEPT ![c].next = p + 1]
                /\ cls' = [cls EXCEPT ![p] = "none"]
                /\ pc' = pc
           ELSE \E script \in Matches(ch) :
                  LET r == fold_op(chunks[c].res.counts, script, Threshold(c))
                  IN  /\ chunks' = [chunks EXCEPT ![c].next = p + 1, ![c].res = r]
                      /\ cls' = [cls EXCEPT ![p] = script]
                      /\ pc' = IF r.tag = "Panic" THEN "panic" ELSE pc
    /\ UNCHANGED << text, half, full, result, first >>

\* chunk c stops folding (out of characters, its own Err, or the full flag
\* seen) and hands its value to the try_reduce folder, which starts from the
\* identity and raises the full flag on an Err
FoldComplete(c) ==
    /\ pc = "run"
    /\ c <= Len(chunks)
    /\ chunks[c].stage = "fold"
    /\ \/ chunks[c].next > chunks[c].hi
       \/ chunks[c].res.tag = "Err"
       \/ full
    /\ LET r == Combine(Ok(Zero), chunks[c].res, half)
       IN  /\ chunks' = [chunks EXCEPT ![c].res = r, ![c].stage = "done"]
           /\ full' = (full \/ r.tag = "Err")
           /\ pc' = IF r.tag = "Panic" THEN "panic" ELSE pc
    /\ UNCHANGED << text, half, cls, result, first >>

\* the reducer joins two finished neighbours
Reduce(c) ==
    /\ pc = "run"
    /\ c + 1 <= Len(chunks)
    /\ chunks[c].stage = "done"
    /\ chunks[c + 1].stage = "done"
    /\ LET joined == [lo    |-> chunks[c].lo,
                      hi    |-> chunks[c + 1].hi,
                      next  |-> chunks[c + 1].next,
                      res   |-> Combine(chunks[c].res, chunks[c + 1].res, half),
                      stage |-> "done"]
       IN  /\ chunks' = RemoveAt([chunks EXCEPT ![c] = joined], c + 1)
           /\ pc' = IF joined.res.tag = "Panic" THEN "panic" ELSE pc
    /\ UNCHANGED << text, half, full, cls, result, first >>

\* match counts { Err(script) => Some(script), Ok(counts) => max_by_key }
Finish ==
    /\ pc = "run"
    /\ Len(chunks) = 1
    /\ chunks[1].stage = "done"
    /\ result' = Outcome(chunks[1].res)
    /\ pc' = IF Outcome(chunks[1].res) = "panic" THEN "panic" ELSE "done"
    /\ UNCHANGED << text, half, chunks, full, cls, first >>

\* the caller calls detect_script once more on the same text
Again ==
    /\ pc = "done"
    /\ first = "unset"
    /\ first' = result
    /\ half' = 0
    /\ chunks' = << >>
    /\ full' = FALSE
    /\ cls' = [p \in 1..Len(text) |-> "unseen"]
    /\ result' = "unset"
    /\ pc' = "call"
    /\ UNCHANGED text

\* the code points of lo..hi that two or more predicates accept
Overlapping(lo, hi) == { c \in lo..hi : Cardinality(Matches(c)) >= 2 }

\* the code points of lo..hi at either side of an edge of a predicate's range
Edges(lo, hi) ==
    UNION { { c, c + 1 } : c \in { d \in lo..hi : \E s \in Scripts : check_fn(s, d) # check_fn(s, d + 1) } }

\* a call on a text of one character, or of the same character twice: every
\* code point of Unicode that two predicates accept, and the code points at
\* the edges of the predicates' ranges (none lies above U+1EEFF)
ScanInit ==
    /\ LET points == Overlapping(0, \H10FFFF) \cup Edges(0, \H1EF00)
       IN  text \in { << c >> : c \in points } \cup { << c, c >> : c \in points }
    /\ half = 0
    /\ chunks = << >>
    /\ full = FALSE
    /\ cls = [p \in 1..Len(text) |-> "unseen"]
    /\ result = "unset"
    /\ first = "unset"
    /\ pc = "call"

\* the steps of one call of detect_script
Call ==
    \/ Start
    \/ \E c \in 1..Len(chunks) : FoldStep(c)
    \/ \E c \in 1..Len(chunks) : FoldComplete(c)
    \/ \E c \in 1..Len(chunks) : Reduce(c)
    \/ Finish

Next ==
    \/ Call
    \/ Again

\* a first call and a second call on the same text
Spec == Init /\ [][Next]_vars

\* one call on each text of ScanInit
Scan == ScanInit /\ [][Call]_vars

\* one call; rayon runs every job it has been given to completion
OneCall == Init /\ [][Call]_vars /\ WF_vars(Call)

(***************************************************************************)
(* Vocabulary of the properties.                                           *)
(***************************************************************************)
Positions == 1..Len(text)

\* the characters the pipeline classified as script s
Classified(s) == { p \in Positions : cls[p] = s }

\* an upper estimate of the characters of the whole text classified as s:
\* those classified as s, and those not reached that find_any could give s
ClassifiableAs(s) ==
    { p \in Positions :
        \/ cls[p] = s
        \/ cls[p] = "unseen" /\ ~is_stop_char(text[p]) /\ s \in Matches(text[p]) }

\* the call has returned, through the early-exit arm or the max_by_key arm
Returned == pc = "done"

EarlyExit == Returned /\ chunks[1].res.tag = "Err"

NoEarlyExit == Returned /\ chunks[1].res.tag = "Ok"

\* the fully merged count vector and the count it holds for script s
Merged == chunks[1].res.counts

CountOf(s) == Merged[AsUsize(s)]

MaxCount == CHOOSE m \in { CountOf(s) : s \in Scripts } : \A s \in Scripts : CountOf(s) <= m

Tied == { s \in Scripts : CountOf(s) = MaxCount }

\* position of a script in the predicate table
TablePos(s) == CHOOSE i \in 1..Len(SCRIPT_COUNTERS) : SCRIPT_COUNTERS[i] = s

\* the outcomes of the one-chunk execution: fold the characters from p on,
\* left to right, into one vector, then select as detect_script does
RECURSIVE SeqOutcomes(_, _, _, _)
SeqOutcomes(t, p, res, h) ==
    IF p > Len(t) \/ res.tag # "Ok" THEN { Outcome(Combine(Ok(Zero), res, h)) }
    ELSE IF is_stop_char(t[p]) \/ Matches(t[p]) = {} THEN SeqOutcomes(t, p + 1, res, h)
    ELSE UNION { SeqOutcomes(t, p + 1, fold_op(res.counts, script, h), h) : script \in Matches(t[p]) }

(***************************************************************************)
(* The properties.                                                         *)
(***************************************************************************)

\* C1: when the call has returned and the characters classified as a script
\* S number more than half (the total character count halved, rounded
\* down), the call returned Some(S), whatever the chunks and merges were.
C1_Threshold ==
    Returned => \A s \in Scripts : Cardinality(Classified(s)) > half => result = s

\* C2: a text none of whose characters is classified into a script (each is
\* a stop character or matches no predicate) makes the call return None.
C2_NoScriptIsNone ==
    (Returned /\ \A p \in Positions : cls[p] \in { "stop", "none" }) => result = "None"

\* C3: a text with at least one classified character, all of whose
\* classified characters belong to one script S, makes the call return
\* Some(S).
C3_SingleScript ==
    Returned =>
        \A s \in Scripts :
            (/\ Classified(s) # {}
             /\ \A p \in Positions : cls[p] \in { s, "stop", "none" })
            => result = s

\* C4: without early exit, when exactly one script S holds the strictly
\* largest count of the fully merged vector, the call returns Some(S).
C4_UniqueMaximum ==
    NoEarlyExit => \A s \in Scripts : Tied = { s } => result = s

\* C5: without early exit, when two or more scripts share the maximal count
\* of the fully merged vector, the call returns the tied script that comes
\* latest in the table order.
C5_TieLatest ==
    (NoEarlyExit /\ Cardinality(Tied) >= 2) =>
        /\ result \in Tied
        /\ \A s \in Tied : TablePos(s) <= TablePos(result)

\* C6: a second call on the same text returns what the first call returned.
C6_Deterministic ==
    (Returned /\ first # "unset") => result = first

\* C7: the call returns a result of the sequential one-chunk execution on
\* the same text.
C7_AsSequential ==
    Returned => result \in SeqOutcomes(text, 1, Ok(Zero), Len(text) \div 2)

\* the steps chunks 1..c can still take: a character each, a hand-over to
\* the reducer each, and a merge each
RECURSIVE StepsLeft(_)
StepsLeft(c) ==
    IF c = 0 THEN 0
    ELSE StepsLeft(c - 1) + 1 +
         (IF chunks[c].stage = "fold" THEN chunks[c].hi - chunks[c].next + 2 ELSE 0)

\* a bound on the steps the call can still take
Measure ==
    IF pc = "call" THEN 3 * Len(text) + 3
    ELSE IF pc = "run" THEN StepsLeft(Len(chunks))
    ELSE 0

\* C8: no index on a count vector or on the predicate table is ever out of
\* range (the call never panics), and every call returns: until it has
\* returned some step of the call can be taken, and every step lowers a
\* natural-number bound on the steps left, so the call completes within
\* 3 * Len(text) + 3 steps.
C8_Total ==
    /\ [](/\ pc # "panic"
          /\ Measure \in Nat
          /\ pc \in { "call", "run" } => ENABLED Call)
    /\ [][Measure' < Measure]_vars

\* C8 witness: a call that tallied a Thai character, the script of the
\* highest ordinal, has returned a result.
C8_Witness ==
    /\ Returned
    /\ result \in Scripts \cup { "None" }
    /\ Classified("Thai") # {}

\* C9: every classified character is tallied for the first script, in table
\* order, whose predicate accepts it (U+1D2B for Latin, never Cyrillic), and
\* a character no predicate accepts is tallied nowhere.
C9_FirstMatch ==
    \A p \in Positions :
        cls[p] \notin { "unseen", "stop" } => cls[p] = FirstMatch(text[p])

\* C10: a script returned through the early-exit arm is one that more than
\* half of the characters of the whole text are classified as.
C10_EarlyWinnerSound ==
    EarlyExit => Cardinality(ClassifiableAs(result)) > half

\* the positions chunk c covers that the pipeline classified as script s
ClassifiedIn(c, s) == { p \in chunks[c].lo..chunks[c].hi : cls[p] = s }

\* C11: the slot a script is tallied in is the slot it is reported from:
\* the ordinal of every script the fold has tallied is that script's index
\* in the table, and whenever a slot i of a count vector is non-zero, a
\* character of the vector's chunk was classified as SCRIPT_COUNTERS[i].0.
C11_SlotIsScript ==
    /\ \A p \in Positions : cls[p] \in Scripts => TableScript(AsUsize(cls[p])) = cls[p]
    /\ \A c \in 1..Len(chunks) :
          chunks[c].res.tag = "Ok" =>
              \A i \in DOMAIN chunks[c].res.counts :
                  chunks[c].res.counts[i] > 0 => ClassifiedIn(c, TableScript(i)) # {}

\* chunk c consumes a stop character in this step
StopStep(c) ==
    /\ pc = "run" /\ pc' = "run"
    /\ Len(chunks') = Len(chunks)
    /\ chunks[c].stage = "fold" /\ chunks'[c].stage = "fold"
    /\ chunks'[c].next = chunks[c].next + 1
    /\ is_stop_char(text[chunks[c].next])

\* C12 as stated: a stop character counts neither toward the total behind
\* the threshold (half is what the text without its stop characters gives)
\* nor toward a tally (no vector holds more than the characters of its chunk
\* that were classified into a script).
C12_StopNeutral ==
    pc \in { "run", "done" } =>
        /\ half = Len(NonStop(text)) \div 2
        /\ \A c \in 1..Len(chunks) :
              chunks[c].res.tag = "Ok" =>
                  \A i \in DOMAIN chunks[c].res.counts :
                      chunks[c].res.counts[i] <=
                          Cardinality({ p \in chunks[c].lo..chunks[c].hi : cls[p] \in Scripts })

\* C12 amended: a stop character changes no slot of any count vector (the
\* step that consumes it leaves the chunk's value and half as they were),
\* but it does count toward the total behind the threshold: half is the
\* count of all characters, stop characters included, halved.
C12_StopTallyOnly ==
    /\ [](pc \in { "run", "done" } => half = Len(text) \div 2)
    /\ [][\A c \in 1..Len(chunks) :
             StopStep(c) => (chunks'[c].res = chunks[c].res /\ half' = half)]_vars

\* C12 witness: a stop character was consumed, another character was
\* tallied, and the stop characters raise half above what the rest gives.
C12_Witness ==
    /\ pc = "run"
    /\ \E p \in Positions : cls[p] = "stop"
    /\ \E p \in Positions : cls[p] \in Scripts
    /\ half > Len(NonStop(text)) \div 2

\* C13: during a call half is the count of all characters of the text
\* halved, it does not change, and it is the threshold of every comparison:
\* no slot of an Ok vector, chunk-local or merged, exceeds it, and a fold
\* leaves with Err(script) only when its tally of that script exceeds it.
C13_HalfFixed ==
    /\ [](pc \in { "run", "done" } =>
            /\ half = Len(text) \div 2
            /\ \A c \in 1..Len(chunks) :
                  /\ chunks[c].res.tag = "Ok" =>
                        \A i \in DOMAIN chunks[c].res.counts : chunks[c].res.counts[i] <= half
                  /\ (chunks[c].res.tag = "Err" /\ chunks[c].stage = "fold") =>
                        Cardinality(ClassifiedIn(c, chunks[c].res.script)) > half)
    /\ [][(pc = "run" /\ pc' \in { "run", "done" }) => half' = half]_vars

\* C13 witness: a chunk holds a slot above the half of its own length and
\* goes on folding, the global half not being exceeded.
C13_Witness ==
    /\ pc = "run"
    /\ \E c \in 1..Len(chunks) :
          /\ chunks[c].res.tag = "Ok"
          /\ \E i \in DOMAIN chunks[c].res.counts :
                chunks[c].res.counts[i] > (chunks[c].hi - chunks[c].lo + 1) \div 2

RECURSIVE SumOver(_, _)
SumOver(f, S) ==
    IF S = {} THEN 0
    ELSE LET x == CHOOSE y \in S : TRUE
         IN  f[x] + SumOver(f, S \ { x })

\* the sum of all slots of a count vector
SumCounts(counts) == SumOver(counts, DOMAIN counts)

\* the non-stop characters chunk c (or the chunks merged into c) consumed
ConsumedNonStop(c) ==
    { p \in chunks[c].lo..chunks[c].hi : cls[p] \notin { "unseen", "stop" } }

\* C14: for every count vector, chunk-local or merged, every slot is a
\* natural number, the slots sum to the number of characters its chunks
\* classified into a script (each adds one to one slot), which is at most
\* the number of non-stop characters they consumed; and no character lies in
\* two chunks.
C14_SumBounded ==
    /\ \A c \in 1..Len(chunks) :
          chunks[c].res.tag = "Ok" =>
              /\ \A i \in DOMAIN chunks[c].res.counts : chunks[c].res.counts[i] \in Nat
              /\ SumCounts(chunks[c].res.counts) =
                    Cardinality({ p \in chunks[c].lo..chunks[c].hi : cls[p] \in Scripts })
              /\ SumCounts(chunks[c].res.counts) <= Cardinality(ConsumedNonStop(c))
    /\ \A c, d \in 1..Len(chunks) : c < d => chunks[c].hi < chunks[d].lo

\* C14 witness: a finished vector holds two tallies and its chunks also
\* consumed a character that was tallied nowhere.
C14_Witness ==
    /\ pc = "run"
    /\ \E c \in 1..Len(chunks) :
          /\ chunks[c].res.tag = "Ok"
          /\ chunks[c].stage = "done"
          /\ SumCounts(chunks[c].res.counts) >= 2
          /\ \E p \in chunks[c].lo..chunks[c].hi : cls[p] \in { "stop", "none" }

\* the code points the claim excepts: U+1D2B and U+1D78
BothLatinAndCyrillic == { \H1D2B, \H1D78 }

\* C15: U+1D2B and U+1D78 are accepted by is_latin and is_cyrillic (and by
\* no other predicate); every other code point is accepted by at most one
\* predicate, so what find_any returns differs from the first match in
\* table order on those two code points only.
C15_Disjoint ==
    \A p \in Positions :
        /\ text[p] \in BothLatinAndCyrillic => Matches(text[p]) = { "Latin", "Cyrillic" }
        /\ text[p] \notin BothLatinAndCyrillic => Cardinality(Matches(text[p])) <= 1
        /\ (cls[p] \in Scripts /\ cls[p] # FirstMatch(text[p])) => text[p] \in BothLatinAndCyrillic

\* C15 witness: find_any returned the Cyrillic entry for U+1D78, whose
\* first match is Latin, and the call returned.
C15_Witness ==
    /\ Returned
    /\ text = << \H1D78 >>
    /\ cls[1] = "Cyrillic"
    /\ FirstMatch(text[1]) = "Latin"

====
